---- MODULE Spec2Model ----
(***************************************************************************)
(* A state-machine model of the optical MIDI controller "virtual-key":     *)
(*   midi/mpe_engine.py  MPEEngine       (channel pool, MIDI messages)     *)
(*   utils/filters.py    OneEuroFilter   (adaptive low-pass filter)        *)
(*   core/spatial.py     SpatialEngine   (4-point homography)              *)
(*   main.py             OpticalController (per-frame translation loop)    *)
(*                                                                         *)
(* Numbers.  Normalised coordinates, filter coefficients and cutoffs are   *)
(* fixed-point integers in units of 1/Unit; timestamps are milliseconds.   *)
(* Python's None is the empty tuple, a present value v is <<v>>.           *)
(***************************************************************************)
EXTENDS Integers, Sequences, FiniteSets, TLC

VARIABLES
    active_notes,        \* MPEEngine.active_notes: finger key -> <<channel, note>>
    available_channels,  \* MPEEngine.available_channels: list of free channels
    sent,                \* messages handed to _send by the last operation / frame
    calls,               \* MPEEngine calls made by the last operation / frame
    lost,                \* messages of the operation running or last run whose
                         \* transport send raised (caught in _send)
    steps,               \* number of operations / frames so far
    trace,               \* outcomes of the calls so far (ceiling scenario only)
    euro,                \* one OneEuroFilter driven directly
    euro_ret,            \* what its last __call__ did
    homography_matrix,   \* SpatialEngine.homography_matrix: None or <<3x3 matrix>>
    cal_ret,             \* what the last direct SpatialEngine.calibrate call did
    proj,                \* argument and result of the last direct project_point call
    active_fingers,      \* OpticalController.active_fingers: list of <<key, note>> in
                         \* insertion order (a Python dict)
    filters_x,           \* OpticalController.filters_x: key -> OneEuroFilter
    filters_y,           \* OpticalController.filters_y: key -> OneEuroFilter
    calibrating,         \* OpticalController.calibrating
    calibration_points,  \* OpticalController.calibration_points
    now,                 \* time.time() of the last frame, in ms
    num_hands,           \* num_hands of the last frame
    pc,                  \* where run() is: "frame", "waitkey", "stopped", "crashed"
    note_ret,            \* configuration, arguments and results of the last direct
                         \* _note_from_x calls
    thr,                 \* the threads calling into one MPEEngine: for each its
                         \* position in the method it runs, the call's arguments and
                         \* locals, and the messages the call has sent
    wire                 \* the messages the transport has received from the frames
                         \* of run() so far, in order

engVars == <<active_notes, available_channels, sent, calls, lost>>
apiVars == <<steps, trace>>
euroVars == <<euro, euro_ret>>
spatialVars == <<homography_matrix, cal_ret, proj>>
ctlVars == <<active_fingers, filters_x, filters_y, calibrating, calibration_points, now,
             num_hands, pc>>
\* the variables only the specifications of single functions use
extVars == <<note_ret, thr, wire>>
vars == <<active_notes, available_channels, sent, calls, lost, steps, trace, euro, euro_ret,
          homography_matrix, cal_ret, proj, active_fingers, filters_x, filters_y,
          calibrating, calibration_points, now, num_hands, pc, note_ret, thr, wire>>

(***************************************************************************)
(* Small helpers.                                                          *)
(***************************************************************************)
None == <<>>
Some(v) == <<v>>
Min(a, b) == IF a <= b THEN a ELSE b
Max(a, b) == IF a >= b THEN a ELSE b
Range(s) == {s[i] : i \in DOMAIN s}
NoDup(s) == \A i, j \in DOMAIN s : i # j => s[i] # s[j]
RemoveKey(f, k) == [x \in (DOMAIN f) \ {k} |-> f[x]]
EmptyDict == [x \in {} |-> <<0, 0>>]
Abs(a) == IF a >= 0 THEN a ELSE 0 - a

\* Fixed point: 1.0 is Unit; a second is MsPerSecond milliseconds.
Unit == 10 * 10 * 10
MsPerSecond == 10 * 10 * 10

(***************************************************************************)
(* utils/filters.py                                                        *)
(***************************************************************************)
\* config["system"]["target_fps"] and ["smoothing_beta"] (0.007), as read in
\* OpticalController.__init__; min_cutoff=1.0 as passed there; d_cutoff default.
target_fps == 60
smoothing_beta == 7
min_cutoff == 1000
d_cutoff == 1000
\* 2 * math.pi as the fraction 710 / 113
TwoPiNum == 710
TwoPiDen == 113

\* OneEuroFilter.__init__: no prior sample
NewFilter == [x_prev |-> None, dx_prev |-> 0, t_prev |-> None]

\* a reset that forgets the samples but keeps the derivative estimate
filter_reset_keeps_dx(F) == [F EXCEPT !.x_prev = None, !.t_prev = None]

\* OneEuroFilter.reset
filter_reset(F) == [F EXCEPT !.x_prev = None, !.dx_prev = 0, !.t_prev = None]

\* OneEuroFilter._alpha(t_e, cutoff): r = 2 pi cutoff t_e; r / (r + 1)
_alpha(t_e, cutoff) ==
    LET r == (TwoPiNum * cutoff * t_e) \div (TwoPiDen * MsPerSecond)
    IN  (r * Unit) \div (r + Unit)

\* OneEuroFilter.__call__(x, t).  raised: the call ended in ZeroDivisionError
\* (Python float division by zero), after _t_prev was already assigned.
filter_call(F, x, t) ==
    LET t_e == IF F.t_prev # None THEN t - F.t_prev[1] ELSE MsPerSecond \div target_fps
        F1 == [F EXCEPT !.t_prev = Some(t)]
    IN  IF F.x_prev # None /\ t_e = 0
        THEN [f |-> F1, raised |-> TRUE, ret |-> None]
        ELSE LET a_d == _alpha(t_e, d_cutoff)
                 dx == IF F.x_prev # None
                       THEN ((x - F.x_prev[1]) * MsPerSecond) \div t_e
                       ELSE 0
                 dx_hat == (a_d * dx + (Unit - a_d) * F.dx_prev) \div Unit
                 cutoff == min_cutoff + (smoothing_beta * Abs(dx_hat)) \div Unit
                 a == _alpha(t_e, cutoff)
                 x_hat == IF F.x_prev # None
                          THEN (a * x + (Unit - a) * F.x_prev[1]) \div Unit
                          ELSE x
             IN  [f |-> [x_prev |-> Some(x_hat), dx_prev |-> dx_hat, t_prev |-> Some(t)],
                  raised |-> FALSE, ret |-> Some(x_hat)]

(***************************************************************************)
(* core/spatial.py                                                         *)
(*                                                                         *)
(* A matrix is the tuple <<a,b,c, d,e,f, g,h,i>> of integers, read up to a *)
(* common factor (homogeneous coordinates).  Calibration corners are       *)
(* normalised to units of 1/CalUnit.                                       *)
(***************************************************************************)
CalUnit == 2 * 5

RECURSIVE Gcd(_, _)
Gcd(a, b) == IF b = 0 THEN Abs(a) ELSE Gcd(b, a % Abs(b))

RECURSIVE GcdAll(_, _)
GcdAll(m, n) == IF n = 0 THEN 0 ELSE Gcd(GcdAll(m, n - 1), m[n])

\* The matrix that maps the unit square's corners (0,0),(1,0),(1,1),(0,1) to the
\* corners q[1..4], each multiplied by the same factor den.
SquareToQuad(q) ==
    LET x0 == q[1][1]  y0 == q[1][2]
        x1 == q[2][1]  y1 == q[2][2]
        x2 == q[3][1]  y2 == q[3][2]
        x3 == q[4][1]  y3 == q[4][2]
        sx == x0 - x1 + x2 - x3
        sy == y0 - y1 + y2 - y3
        dx1 == x1 - x2
        dx2 == x3 - x2
        dy1 == y1 - y2
        dy2 == y3 - y2
        den == dx1 * dy2 - dx2 * dy1
        g == sx * dy2 - dx2 * sy
        h == dx1 * sy - sx * dy1
    IN  << (x1 - x0) * den + g * x1, (x3 - x0) * den + h * x3, x0 * den,
           (y1 - y0) * den + g * y1, (y3 - y0) * den + h * y3, y0 * den,
           g, h, den >>

Adjugate(m) ==
    << m[5] * m[9] - m[6] * m[8], m[3] * m[8] - m[2] * m[9], m[2] * m[6] - m[3] * m[5],
       m[6] * m[7] - m[4] * m[9], m[1] * m[9] - m[3] * m[7], m[3] * m[4] - m[1] * m[6],
       m[4] * m[8] - m[5] * m[7], m[2] * m[7] - m[1] * m[8], m[1] * m[5] - m[2] * m[4] >>

Det(m) ==
    m[1] * (m[5] * m[9] - m[6] * m[8]) - m[2] * (m[4] * m[9] - m[6] * m[7])
      + m[3] * (m[4] * m[8] - m[5] * m[7])

\* Collinear / zero-area corners: no homography to the unit square exists.
Degenerate(q) == Adjugate(SquareToQuad(q)) = [i \in 1..9 |-> 0] \/ Det(SquareToQuad(q)) = 0

Reduced(m) == LET g == GcdAll(m, 9) IN IF g = 0 THEN m ELSE [i \in 1..9 |-> m[i] \div g]

\* cv2.findHomography(src_norm, unit square corners): the matrices it can
\* return.  For four corners in general position it is the one homography.  For
\* degenerate corners OpenCV raises nothing: it returns no matrix (None) or the
\* ill-conditioned estimate of its solver; both outcomes are taken.
findHomography(src_norm) ==
    IF Degenerate(src_norm)
    THEN {None, Some(Adjugate(SquareToQuad(src_norm)))}
    ELSE {Some(Reduced(Adjugate(SquareToQuad(src_norm))))}


\* SpatialEngine.calibrate(src_points, frame_w, frame_h): the outcomes, each the
\* matrix in effect afterwards and whether ValueError was raised.
calibrate(matrix, src_points, frame_w, frame_h) ==
    IF Len(src_points) # 4
    THEN {[matrix |-> matrix, raised |-> TRUE]}
    ELSE LET src_norm == [i \in 1..4 |-> << (src_points[i][1] * CalUnit) \div frame_w,
                                            (src_points[i][2] * CalUnit) \div frame_h >>]
         IN  {[matrix |-> m, raised |-> FALSE] : m \in findHomography(src_norm)}

\* SpatialEngine.reset
spatial_reset == None

Clamp01(u, w) ==
    \* max(0.0, min(1.0, u / w)) for w > 0
    IF u <= 0 THEN 0 ELSE IF u >= w THEN Unit ELSE (u * Unit) \div w

\* cv2.perspectiveTransform of one point followed by the clamp to [0, 1];
\* OpenCV yields (0, 0) for a point whose homogeneous w is 0.
Transformed(m, x, y) ==
    LET k == Unit \div CalUnit
        u == m[1] * x + m[2] * y + m[3] * k
        v == m[4] * x + m[5] * y + m[6] * k
        w == m[7] * x + m[8] * y + m[9] * k
    IN  IF w = 0 THEN <<0, 0>>
        ELSE IF w > 0 THEN <<Clamp01(u, w), Clamp01(v, w)>>
        ELSE <<Clamp01(0 - u, 0 - w), Clamp01(0 - v, 0 - w)>>

\* SpatialEngine.project_point(x, y)
project_point(matrix, x, y) ==
    IF matrix = None THEN <<x, y>> ELSE Transformed(matrix[1], x, y)

(***************************************************************************)
(* midi/mpe_engine.py                                                      *)
(***************************************************************************)
NOTE_OFF == 128
NOTE_ON == 144
CONTROL_CHANGE == 176
PITCH_BEND == 224
CC_TIMBRE == 74
CC_ALL_NOTES_OFF == 123

\* a pool that starts at the master channel: list(range(16))
AllChannelsWithMaster == [i \in 1..16 |-> i - 1]

\* list(range(1, 16)): the MPE note channels, MIDI channels 2-16
AllNoteChannels == [i \in 1..15 |-> i]

\* The engine as a value: its two fields and the logs of the operation running.
\* fails: which of the operation's sends (first, second, ...) raise in the transport.
Engine == [active_notes |-> active_notes, available_channels |-> available_channels,
           sent |-> <<>>, calls |-> <<>>, lost |-> <<>>, fails |-> {}]

\* _send: the message is handed to the transport; a transport error is caught
\* and printed, the message is lost and the caller goes on
_send(E, message) ==
    IF Len(E.sent) + Len(E.lost) + 1 \in E.fails
    THEN [E EXCEPT !.lost = Append(@, message)]
    ELSE [E EXCEPT !.sent = Append(@, message)]

\* Records one entry into an MPEEngine method, with the pool sizes it found; args
\* are the arguments besides finger and note (the velocity, the expression values).
EnterWith(E, op, finger_id, note, args) ==
    [E EXCEPT !.calls = Append(@, [op |-> op, finger |-> finger_id, note |-> note,
                                   args |-> args,
                                   free_before |-> Len(E.available_channels),
                                   held_before |-> Cardinality(DOMAIN E.active_notes)])]

Enter(E, op, finger_id, note) == EnterWith(E, op, finger_id, note, None)

\* note_on that allocates also when no channel is free
note_on_steal(E, finger_id, note_num, velocity) ==
    LET L == EnterWith(E, "note_on", finger_id, Some(note_num), Some(velocity))
        chan == IF L.available_channels = <<>> THEN 0 ELSE Head(L.available_channels)
        A == [L EXCEPT !.available_channels = IF @ = <<>> THEN @ ELSE Tail(@),
                       !.active_notes = (finger_id :> <<chan, note_num>>) @@ @]
        B == _send(A, <<PITCH_BEND + chan, 0, 64>>)
    IN  _send(B, <<NOTE_ON + chan, note_num % 128, Max(1, Min(127, velocity))>>)

\* note_on that passes the velocity on as it came
note_on_unclamped(E, finger_id, note_num, velocity) ==
    LET L == EnterWith(E, "note_on", finger_id, Some(note_num), Some(velocity))
    IN  IF L.available_channels = <<>>
        THEN L
        ELSE LET chan == Head(L.available_channels)
                 A == [L EXCEPT !.available_channels = Tail(@),
                                !.active_notes = (finger_id :> <<chan, note_num>>) @@ @]
                 B == _send(A, <<PITCH_BEND + chan, 0, 64>>)
             IN  _send(B, <<NOTE_ON + chan, note_num % 128, velocity % 128>>)

\* note_on: silent drop without a free channel, else pop(0), pitch-bend
\* reset, NOTE_ON with the velocity clamped to 1..127
note_on(E, finger_id, note_num, velocity) ==
    LET L == EnterWith(E, "note_on", finger_id, Some(note_num), Some(velocity))
    IN  IF L.available_channels = <<>>
        THEN L
        ELSE LET chan == Head(L.available_channels)
                 A == [L EXCEPT !.available_channels = Tail(@),
                                !.active_notes = (finger_id :> <<chan, note_num>>) @@ @]
                 B == _send(A, <<PITCH_BEND + chan, 0, 64>>)
                 vel == Max(1, Min(127, velocity))
             IN  _send(B, <<NOTE_ON + chan, note_num % 128, vel>>)

\* pb = max(0, min(16383, int(pitch_bend))), as <<pb_lsb, pb_msb>>
PitchBendBytes(pitch_bend) ==
    LET pb == Max(0, Min(16383, pitch_bend))
    IN  <<pb % 128, (pb \div 128) % 128>>

\* cc_val = max(0, min(127, int(y_val * 127))), y_val in units of 1/Unit
TimbreValue(y_val) == Max(0, Min(127, (y_val * 127) \div Unit))

\* update_expression without the look-up of the association: a finger without
\* one is served on the master channel
update_expression_unchecked(E, finger_id, pitch_bend, y_val) ==
    LET L == EnterWith(E, "update_expression", finger_id, None, <<pitch_bend, y_val>>)
        chan == IF finger_id \in DOMAIN L.active_notes
                THEN L.active_notes[finger_id][1] ELSE 0
        B == _send(L, <<PITCH_BEND + chan>> \o PitchBendBytes(pitch_bend))
    IN  _send(B, <<CONTROL_CHANGE + chan, CC_TIMBRE, TimbreValue(y_val)>>)

\* update_expression: nothing without an association, else a pitch-bend and a
\* CC 74 message on the finger's channel
update_expression(E, finger_id, pitch_bend, y_val) ==
    LET L == EnterWith(E, "update_expression", finger_id, None, <<pitch_bend, y_val>>)
    IN  IF finger_id \notin DOMAIN L.active_notes
        THEN L
        ELSE LET chan == L.active_notes[finger_id][1]
                 B == _send(L, <<PITCH_BEND + chan>> \o PitchBendBytes(pitch_bend))
             IN  _send(B, <<CONTROL_CHANGE + chan, CC_TIMBRE, TimbreValue(y_val)>>)

\* note_off that puts the released channel at the head of the free list
note_off_lifo(E, finger_id, note_num) ==
    LET L == Enter(E, "note_off", finger_id, note_num)
    IN  IF finger_id \notin DOMAIN L.active_notes
        THEN L
        ELSE LET chan == L.active_notes[finger_id][1]
                 stored_note == L.active_notes[finger_id][2]
                 actual_note == IF note_num = None THEN stored_note ELSE note_num[1]
                 A == [L EXCEPT !.active_notes = RemoveKey(@, finger_id)]
                 B == _send(A, <<NOTE_OFF + chan, actual_note % 128, 0>>)
                 C == _send(B, <<PITCH_BEND + chan, 0, 64>>)
             IN  [C EXCEPT !.available_channels = <<chan>> \o @]

\* note_off whose sends are not guarded: a send that raises ends the call
note_off_send_raises(E, finger_id, note_num) ==
    LET L == Enter(E, "note_off", finger_id, note_num)
    IN  IF finger_id \notin DOMAIN L.active_notes
        THEN L
        ELSE LET chan == L.active_notes[finger_id][1]
                 stored_note == L.active_notes[finger_id][2]
                 actual_note == IF note_num = None THEN stored_note ELSE note_num[1]
                 A == [L EXCEPT !.active_notes = RemoveKey(@, finger_id)]
                 B == _send(A, <<NOTE_OFF + chan, actual_note % 128, 0>>)
                 C == _send(B, <<PITCH_BEND + chan, 0, 64>>)
             IN  IF B.lost # <<>> THEN B
                 ELSE IF C.lost # <<>> THEN C
                 ELSE [C EXCEPT !.available_channels = Append(@, chan)]

\* note_off: NOTE_OFF, pitch-bend reset, channel appended to the free list
note_off(E, finger_id, note_num) ==
    LET L == Enter(E, "note_off", finger_id, note_num)
    IN  IF finger_id \notin DOMAIN L.active_notes
        THEN L
        ELSE LET chan == L.active_notes[finger_id][1]
                 stored_note == L.active_notes[finger_id][2]
                 actual_note == IF note_num = None THEN stored_note ELSE note_num[1]
                 A == [L EXCEPT !.active_notes = RemoveKey(@, finger_id)]
                 B == _send(A, <<NOTE_OFF + chan, actual_note % 128, 0>>)
                 C == _send(B, <<PITCH_BEND + chan, 0, 64>>)
             IN  [C EXCEPT !.available_channels = Append(@, chan)]

\* all_notes_off that leaves out the master channel 0
all_notes_off_skip_master(E) ==
    LET L == Enter(E, "all_notes_off", None, None)
    IN  [L EXCEPT !.sent = @ \o [c \in 1..15 |-> <<CONTROL_CHANGE + c, CC_ALL_NOTES_OFF, 0>>],
                  !.active_notes = EmptyDict,
                  !.available_channels = AllNoteChannels]

\* for channel in range(16): self._send([CONTROL_CHANGE | channel, 123, 0])
RECURSIVE send_all_notes_off(_, _)
send_all_notes_off(E, channel) ==
    IF channel > 15 THEN E
    ELSE send_all_notes_off(_send(E, <<CONTROL_CHANGE + channel, CC_ALL_NOTES_OFF, 0>>),
                            channel + 1)

\* all_notes_off: CC 123 on range(16), clear, restore the pool
all_notes_off(E) ==
    LET L == send_all_notes_off(Enter(E, "all_notes_off", None, None), 0)
    IN  [L EXCEPT !.active_notes = EmptyDict,
                  !.available_channels = AllNoteChannels]

SetEngine(E) ==
    /\ active_notes' = E.active_notes
    /\ available_channels' = E.available_channels
    /\ sent' = E.sent
    /\ calls' = E.calls
    /\ lost' = E.lost

(***************************************************************************)
(* The engine's methods statement by statement, for callers on several     *)
(* threads.  M is the machine one thread sees: the two shared fields an    *)
(* (active_notes) and ac (available_channels), and the thread th with its  *)
(* position pc, the arguments finger / note / velocity, the locals chan    *)
(* and stored_note, and out, the messages the call has handed to _send.    *)
(* A step executes the statement at pc.  list.pop(0) on an empty list and  *)
(* dict.pop of a missing key raise (IndexError, KeyError): the call ends   *)
(* at pc "error".  The send loop of all_notes_off touches only the         *)
(* transport and is one step.                                              *)
(***************************************************************************)
Threads == {1, 2}
IdleThread == [pc |-> "idle", op |-> "none", finger |-> None, note |-> None,
               velocity |-> 0, chan |-> 0, stored_note |-> None, out |-> <<>>,
               ncalls |-> 0]
AbsentThread == [IdleThread EXCEPT !.pc = "absent"]
FirstPc(op) == CASE op = "note_on" -> "on_check"
                 [] op = "note_off" -> "off_check"
                 [] op = "all_notes_off" -> "all_send"
Resting == {"idle", "done", "error"}

Goto(M, label) == [M EXCEPT !.th.pc = label]
Emit(M, message) == [M EXCEPT !.th.out = Append(@, message)]

\* note_on, mpe_engine.py lines 73-85
note_on_stmt(M) ==
    LET th == M.th
    IN  CASE th.pc = "on_check" ->
                 IF M.ac = <<>> THEN Goto(M, "done") ELSE Goto(M, "on_pop")
          [] th.pc = "on_pop" ->
                 IF M.ac = <<>> THEN Goto(M, "error")
                 ELSE [M EXCEPT !.ac = Tail(@), !.th.chan = Head(M.ac), !.th.pc = "on_assoc"]
          [] th.pc = "on_assoc" ->
                 [M EXCEPT !.an = (th.finger :> <<th.chan, th.note[1]>>) @@ @,
                           !.th.pc = "on_bend"]
          [] th.pc = "on_bend" ->
                 Goto(Emit(M, <<PITCH_BEND + th.chan, 0, 64>>), "on_send")
          [] th.pc = "on_send" ->
                 Goto(Emit(M, <<NOTE_ON + th.chan, th.note[1] % 128,
                                Max(1, Min(127, th.velocity))>>), "done")

\* actual_note = stored_note if note_num is None else note_num
actual_note(th) == IF th.note = None THEN th.stored_note[1] ELSE th.note[1]

\* note_off that returns the channel to the pool before anything else
note_off_stmt_append_first(M) ==
    LET th == M.th
    IN  CASE th.pc = "off_check" ->
                 IF th.finger \notin DOMAIN M.an THEN Goto(M, "done")
                 ELSE [M EXCEPT !.ac = Append(@, M.an[th.finger][1]), !.th.pc = "off_pop"]
          [] th.pc = "off_pop" ->
                 IF th.finger \notin DOMAIN M.an THEN Goto(M, "error")
                 ELSE [M EXCEPT !.an = RemoveKey(@, th.finger),
                                !.th.chan = M.an[th.finger][1],
                                !.th.stored_note = Some(M.an[th.finger][2]),
                                !.th.pc = "off_send"]
          [] th.pc = "off_send" ->
                 Goto(Emit(M, <<NOTE_OFF + th.chan, actual_note(th) % 128, 0>>), "off_bend")
          [] th.pc = "off_bend" ->
                 Goto(Emit(M, <<PITCH_BEND + th.chan, 0, 64>>), "off_append")
          [] th.pc = "off_append" -> Goto(M, "done")

\* note_off, mpe_engine.py lines 124-135
note_off_stmt(M) ==
    LET th == M.th
    IN  CASE th.pc = "off_check" ->
                 IF th.finger \notin DOMAIN M.an THEN Goto(M, "done") ELSE Goto(M, "off_pop")
          [] th.pc = "off_pop" ->
                 IF th.finger \notin DOMAIN M.an THEN Goto(M, "error")
                 ELSE [M EXCEPT !.an = RemoveKey(@, th.finger),
                                !.th.chan = M.an[th.finger][1],
                                !.th.stored_note = Some(M.an[th.finger][2]),
                                !.th.pc = "off_send"]
          [] th.pc = "off_send" ->
                 Goto(Emit(M, <<NOTE_OFF + th.chan, actual_note(th) % 128, 0>>), "off_bend")
          [] th.pc = "off_bend" ->
                 Goto(Emit(M, <<PITCH_BEND + th.chan, 0, 64>>), "off_append")
          [] th.pc = "off_append" ->
                 [M EXCEPT !.ac = Append(@, th.chan), !.th.pc = "done"]

\* all_notes_off, mpe_engine.py lines 139-142
all_notes_off_stmt(M) ==
    LET th == M.th
    IN  CASE th.pc = "all_send" ->
                 [M EXCEPT !.th.out = @ \o [c \in 1..16 |->
                                        <<CONTROL_CHANGE + (c - 1), CC_ALL_NOTES_OFF, 0>>],
                           !.th.pc = "all_clear"]
          [] th.pc = "all_clear" -> [M EXCEPT !.an = EmptyDict, !.th.pc = "all_pool"]
          [] th.pc = "all_pool" -> [M EXCEPT !.ac = AllNoteChannels, !.th.pc = "done"]

\* the statement the thread is at
stmt(M) ==
    CASE M.th.op = "note_on" -> note_on_stmt(M)
      [] M.th.op = "note_off" -> note_off_stmt(M)
      [] M.th.op = "all_notes_off" -> all_notes_off_stmt(M)

(***************************************************************************)
(* main.py: OpticalController                                              *)
(***************************************************************************)
\* self.frame_w, self.frame_h
frame_w == 640
frame_h == 480
\* FINGER_TIPS.values(), in the dict's order
FINGER_TIPS == <<8, 12, 16, 20>>
\* for hi in range(2): for tip_id in FINGER_TIPS.values(): k = (hi, tip_id)
FingerKeys == {<<hi, FINGER_TIPS[i]>> : hi \in 0..1, i \in 1..4}

KEY_ZONE_TOP == 760
KEY_ZONE_RELEASE == 730
\* config["keyboard"]["note_start"], ["note_end"]
note_start == 60
note_end == 84
num_notes == note_end - note_start
press_velocity == 80

\* An insertion-ordered dict as a list of <<key, value>>.
DictKeys(d) == {d[i][1] : i \in DOMAIN d}
DictGet(d, k) == d[CHOOSE i \in DOMAIN d : d[i][1] = k][2]
DictSet(d, k, v) ==
    IF k \in DictKeys(d)
    THEN [i \in DOMAIN d |-> IF d[i][1] = k THEN <<k, v>> ELSE d[i]]
    ELSE Append(d, <<k, v>>)
DictPop(d, k) == LET Keep(e) == e[1] # k IN SelectSeq(d, Keep)

\* _note_from_x for a configuration (self.note_start, self.num_notes) and x in
\* units of 1/10000: note_start + int(max(0.0, min(0.9999, x)) * num_notes)
note_from_x_clamp_one(start, notes, x) ==
    start + (Max(0, Min(10000, x)) * notes) \div 10000

note_from_x(start, notes, x) ==
    start + (Max(0, Min(9999, x)) * notes) \div 10000

\* _note_from_x of the running controller, x in units of 1/1000
_note_from_x(x) == note_from_x(note_start, num_notes, x * 10)

\* pressing = fy >= KEY_ZONE_TOP
pressing(fy) == fy >= KEY_ZONE_TOP

\* release at the entry threshold, without hysteresis
releasing_no_hysteresis(was_active, fy) == was_active /\ fy < KEY_ZONE_TOP

\* elif was_active and fy < KEY_ZONE_RELEASE
releasing(was_active, fy) == was_active /\ fy < KEY_ZONE_RELEASE

\* In the operators below S is the controller while a frame is processed: the
\* engine E, active_fingers af, the filters fx / fy, and whether an exception
\* is propagating.
\* "new key press"
press_key(S, k, note) ==
    [S EXCEPT !.E = note_on(@, k, note, press_velocity),
              !.af = DictSet(@, k, note)]

\* a slide that only stores the new note
slide_key_silent(S, k, note) == [S EXCEPT !.af = DictSet(@, k, note)]

\* a slide that sounds the new note before it stops the old one
slide_key_on_first(S, k, note) ==
    LET E1 == note_on(S.E, k, note, press_velocity)
        E2 == note_off(E1, k, Some(DictGet(S.af, k)))
    IN  [S EXCEPT !.E = E2, !.af = DictSet(@, k, note)]

\* "finger moved to a different key"
slide_key(S, k, note) ==
    LET E1 == note_off(S.E, k, Some(DictGet(S.af, k)))
        E2 == note_on(E1, k, note, press_velocity)
    IN  [S EXCEPT !.E = E2, !.af = DictSet(@, k, note)]

\* a release that sends the note_off but keeps the finger in active_fingers
release_key_keeps_finger(S, k) ==
    [S EXCEPT !.E = note_off(@, k, Some(DictGet(S.af, k)))]

\* "fingertip left the zone"
release_key(S, k) ==
    [S EXCEPT !.E = note_off(@, k, Some(DictGet(S.af, k))),
              !.af = DictPop(@, k)]

\* an iteration that compares the projected y with the thresholds
process_fingertip_projected(S, k, tip, t, matrix) ==
    IF S.raised THEN S
    ELSE
    LET rx == filter_call(S.fx[k], tip[1], t)
    IN  IF rx.raised THEN [S EXCEPT !.fx[k] = rx.f, !.raised = TRUE]
        ELSE
        LET ry == filter_call(S.fy[k], tip[2], t)
        IN  IF ry.raised
            THEN [S EXCEPT !.fx[k] = rx.f, !.fy[k] = ry.f, !.raised = TRUE]
            ELSE
            LET fx == rx.ret[1]
                fy == ry.ret[1]
                p == project_point(matrix, fx, fy)
                S1 == [S EXCEPT !.fx[k] = rx.f, !.fy[k] = ry.f]
                was_active == k \in DictKeys(S.af)
            IN  IF pressing(p[2])
                THEN LET note == _note_from_x(p[1])
                     IN  IF ~was_active THEN press_key(S1, k, note)
                         ELSE IF DictGet(S.af, k) # note THEN slide_key(S1, k, note)
                         ELSE S1
                ELSE IF releasing(was_active, p[2]) THEN release_key(S1, k)
                ELSE S1

\* One iteration of the loop over FINGER_TIPS in _process_hand.
process_fingertip(S, k, tip, t, matrix) ==
    IF S.raised THEN S
    ELSE
    LET rx == filter_call(S.fx[k], tip[1], t)
    IN  IF rx.raised THEN [S EXCEPT !.fx[k] = rx.f, !.raised = TRUE]
        ELSE
        LET ry == filter_call(S.fy[k], tip[2], t)
        IN  IF ry.raised
            THEN [S EXCEPT !.fx[k] = rx.f, !.fy[k] = ry.f, !.raised = TRUE]
            ELSE
            LET fx == rx.ret[1]
                fy == ry.ret[1]
                p == project_point(matrix, fx, fy)
                S1 == [S EXCEPT !.fx[k] = rx.f, !.fy[k] = ry.f]
                was_active == k \in DictKeys(S.af)
            IN  IF pressing(fy)
                THEN LET note == _note_from_x(p[1])
                     IN  IF ~was_active THEN press_key(S1, k, note)
                         ELSE IF DictGet(S.af, k) # note THEN slide_key(S1, k, note)
                         ELSE S1
                ELSE IF releasing(was_active, fy) THEN release_key(S1, k)
                ELSE S1

RECURSIVE process_tips(_, _, _, _, _, _)
process_tips(S, landmarks, hand_idx, t, matrix, i) ==
    IF i > Len(FINGER_TIPS) THEN S
    ELSE process_tips(process_fingertip(S, <<hand_idx, FINGER_TIPS[i]>>,
                                        landmarks[FINGER_TIPS[i]], t, matrix),
                      landmarks, hand_idx, t, matrix, i + 1)

\* _process_hand(landmarks, hand_idx, t)
_process_hand(S, landmarks, hand_idx, t, matrix) ==
    process_tips(S, landmarks, hand_idx, t, matrix, 1)

\* for hi, landmarks in enumerate(result.hand_landmarks)
RECURSIVE process_hands(_, _, _, _, _)
process_hands(S, hands, t, matrix, hi) ==
    IF hi >= Len(hands) THEN S
    ELSE process_hands(_process_hand(S, hands[hi + 1], hi, t, matrix),
                       hands, t, matrix, hi + 1)

\* "Release notes for any hand that has disappeared"
RECURSIVE release_each(_, _)
release_each(S, stale) ==
    IF stale = <<>> THEN S
    ELSE release_each(release_key(S, Head(stale)[1]), Tail(stale))

\* a loop that forgets the hands that disappeared
release_stale_none(S, n) == S

\* stale = [k for k in self.active_fingers if k[0] >= num_hands]; note_off each
release_stale(S, n) ==
    LET Gone(e) == e[1][1] >= n
    IN  release_each(S, SelectSeq(S.af, Gone))

(***************************************************************************)
(* The engine driven directly through its public API.                      *)
(***************************************************************************)
MaxCalls == 5
MaxFingers == 18
MaxOffs == 1

\* "any hashable key, e.g. (hand_index, landmark_id)"
FingerId(i) == <<i, 8>>
ApiFingers == {FingerId(0), FingerId(1), <<0, 12>>}
ApiNotes == {60, 61, 130}
ApiVelocities == {0, 80, 200}
\* pitch_bend and y_val (in 1/Unit) of update_expression
ApiBends == {8192, 20000}
ApiTimbres == {500, 1200}

EngineInit ==
    /\ active_notes = EmptyDict
    /\ available_channels = AllNoteChannels
    /\ sent = <<>>
    /\ calls = <<>>
    /\ lost = <<>>

NoCalibrate == [called |-> FALSE, count |-> 0, degenerate |-> FALSE, raised |-> FALSE,
                before |-> None]

NoCall == [called |-> FALSE, raised |-> FALSE, ret |-> None, x |-> 0, t |-> 0,
           fresh |-> FALSE]

\* everything but the engine and its callers
OthersInit ==
    /\ steps = 0
    /\ trace = <<>>
    /\ euro = NewFilter
    /\ euro_ret = NoCall
    /\ homography_matrix = None
    /\ cal_ret = NoCalibrate
    /\ proj = <<>>
    /\ active_fingers = <<>>
    /\ filters_x = [k \in FingerKeys |-> NewFilter]
    /\ filters_y = [k \in FingerKeys |-> NewFilter]
    /\ calibrating = FALSE
    /\ calibration_points = <<>>
    /\ now = 0
    /\ num_hands = 0
    /\ pc = "frame"
    /\ note_ret = <<>>
    /\ wire = <<>>

Init ==
    /\ EngineInit
    /\ OthersInit
    /\ thr = [t \in Threads |-> IdleThread]

ApiNoteOn(f, n, v) ==
    /\ steps < MaxCalls
    /\ SetEngine(note_on(Engine, f, n, v))
    /\ steps' = steps + 1
    /\ UNCHANGED <<extVars, trace, euroVars, spatialVars, ctlVars>>

ApiNoteOff(f, n) ==
    /\ steps < MaxCalls
    /\ SetEngine(note_off(Engine, f, n))
    /\ steps' = steps + 1
    /\ UNCHANGED <<extVars, trace, euroVars, spatialVars, ctlVars>>

ApiAllNotesOff ==
    /\ steps < MaxCalls
    /\ SetEngine(all_notes_off(Engine))
    /\ steps' = steps + 1
    /\ UNCHANGED <<extVars, trace, euroVars, spatialVars, ctlVars>>

ApiUpdateExpression(f, pb, y) ==
    /\ steps < MaxCalls
    /\ SetEngine(update_expression(Engine, f, pb, y))
    /\ steps' = steps + 1
    /\ UNCHANGED <<extVars, trace, euroVars, spatialVars, ctlVars>>

NextEngine ==
    \/ \E f \in ApiFingers, n \in ApiNotes, v \in ApiVelocities : ApiNoteOn(f, n, v)
    \/ \E f \in ApiFingers, n \in {None} \cup {Some(m) : m \in ApiNotes} : ApiNoteOff(f, n)
    \/ ApiAllNotesOff
    \/ \E f \in ApiFingers, pb \in ApiBends, y \in ApiTimbres : ApiUpdateExpression(f, pb, y)

SpecEngine == Init /\ [][NextEngine]_vars

(***************************************************************************)
(* The polyphony ceiling: note_on for ever new finger ids, with a bounded  *)
(* number of note_off calls in between.  trace records, per call, whether  *)
(* a note_on allocated ("on") or left the engine untouched and silent      *)
(* ("drop"), or that the call was a note_off ("off").                      *)
(***************************************************************************)
PolyNote == note_start
PolyVelocity == press_velocity

NoteOnCalls == Cardinality({i \in DOMAIN trace : trace[i] # "off"})
NoteOffCalls == Cardinality({i \in DOMAIN trace : trace[i] = "off"})

Outcome(E, f) ==
    IF /\ E.sent = <<>>
       /\ E.active_notes = active_notes
       /\ E.available_channels = available_channels
    THEN "drop"
    ELSE IF f \in DOMAIN E.active_notes /\ Len(E.sent) = 2 THEN "on" ELSE "other"

PolyNoteOn ==
    /\ NoteOnCalls < MaxFingers
    /\ LET f == FingerId(NoteOnCalls)
           E == note_on(Engine, f, PolyNote, PolyVelocity)
       IN  /\ SetEngine(E)
           /\ trace' = Append(trace, Outcome(E, f))
    /\ steps' = steps + 1
    /\ UNCHANGED <<extVars, euroVars, spatialVars, ctlVars>>

PolyNoteOff(f) ==
    /\ NoteOffCalls < MaxOffs
    /\ f \in DOMAIN active_notes
    /\ SetEngine(note_off(Engine, f, None))
    /\ trace' = Append(trace, "off")
    /\ steps' = steps + 1
    /\ UNCHANGED <<extVars, euroVars, spatialVars, ctlVars>>

NextPoly ==
    \/ PolyNoteOn
    \/ \E f \in DOMAIN active_notes : PolyNoteOff(f)

SpecPoly == Init /\ [][NextPoly]_vars

(***************************************************************************)
(* One filter driven directly: observations with non-decreasing            *)
(* timestamps, and resets.                                                 *)
(***************************************************************************)
MaxObs == 4
ObsValues == {0, 500, 1000}
ObsSteps == {0, 16, 500}

LastTime == IF euro.t_prev = None THEN 0 ELSE euro.t_prev[1]

Observe(x, dt) ==
    /\ steps < MaxObs
    /\ LET t == LastTime + dt
           r == filter_call(euro, x, t)
       IN  /\ euro' = r.f
           /\ euro_ret' = [called |-> TRUE, raised |-> r.raised, ret |-> r.ret,
                           x |-> x, t |-> t, fresh |-> euro.x_prev = None]
    /\ steps' = steps + 1
    /\ UNCHANGED <<extVars, engVars, trace, spatialVars, ctlVars>>

ResetFilter ==
    /\ steps < MaxObs
    /\ euro' = filter_reset(euro)
    /\ euro_ret' = NoCall
    /\ steps' = steps + 1
    /\ UNCHANGED <<extVars, engVars, trace, spatialVars, ctlVars>>

NextFilter ==
    \/ \E x \in ObsValues, dt \in ObsSteps : Observe(x, dt)
    \/ ResetFilter

SpecFilter == Init /\ [][NextFilter]_vars

(***************************************************************************)
(* The SpatialEngine driven directly: calibrate with 3 to 5 clicked pixel  *)
(* points of a 640 x 480 frame, reset, project_point.                      *)
(***************************************************************************)
MaxSpatialCalls == 3
PixelPoints == {<<128, 96>>, <<512, 96>>, <<640, 480>>, <<0, 480>>}
PointLists == [1..4 -> PixelPoints] \cup [1..3 -> {<<128, 96>>, <<512, 96>>}]
                                    \cup [1..5 -> {<<128, 96>>, <<640, 480>>}]
ProjInputs == {<<500, 800>>, <<200, 200>>, <<1050, 0 - 20>>}

NormOf(pts) == [i \in 1..Len(pts) |-> << (pts[i][1] * CalUnit) \div frame_w,
                                         (pts[i][2] * CalUnit) \div frame_h >>]

Calibrate(pts) ==
    /\ steps < MaxSpatialCalls
    /\ \E r \in calibrate(homography_matrix, pts, frame_w, frame_h) :
          /\ homography_matrix' = r.matrix
          /\ cal_ret' = [called |-> TRUE, count |-> Len(pts),
                         degenerate |-> Len(pts) = 4 /\ Degenerate(NormOf(pts)),
                         raised |-> r.raised, before |-> homography_matrix]
    /\ steps' = steps + 1
    /\ UNCHANGED <<extVars, engVars, trace, euroVars, proj, ctlVars>>

ResetCalibration ==
    /\ steps < MaxSpatialCalls
    /\ homography_matrix' = spatial_reset
    /\ cal_ret' = NoCalibrate
    /\ steps' = steps + 1
    /\ UNCHANGED <<extVars, engVars, trace, euroVars, proj, ctlVars>>

Project(p) ==
    /\ steps < MaxSpatialCalls
    /\ proj' = <<p, project_point(homography_matrix, p[1], p[2])>>
    /\ steps' = steps + 1
    /\ UNCHANGED <<extVars, engVars, trace, euroVars, homography_matrix, cal_ret, ctlVars>>

NextSpatial ==
    \/ \E pts \in PointLists : Calibrate(pts)
    \/ ResetCalibration
    \/ \E p \in ProjInputs : Project(p)

SpecSpatial == Init /\ [][NextSpatial]_vars

(***************************************************************************)
(* OpticalController.run: the main loop.  One iteration is the frame       *)
(* (read, detect, _process_hand per hand, stale release) up to waitKey;    *)
(* inside waitKey the mouse callback may run; then the key is handled.     *)
(* A frame has 0, 1 or 2 hands; of a hand's landmarks the four fingertips  *)
(* are modelled.                                                           *)
(***************************************************************************)
MaxTicks == 3
FrameSteps == {0, 500}
Landmarks(p8, p12) == (8 :> p8 @@ 12 :> p12 @@ 16 :> <<600, 500>> @@ 20 :> <<700, 500>>)
Slot0Hands == {Landmarks(<<x, y>>, <<300, 800>>) : x \in {100, 900}, y \in {720, 800}}
Slot1Hands == {Landmarks(<<400, 800>>, <<500, 500>>)}
HandInputs == {<<>>} \cup {<<a>> : a \in Slot0Hands}
                     \cup {<<a, b>> : a \in Slot0Hands, b \in Slot1Hands}
\* the corners the user clicks, TL -> TR -> BR -> BL: the lower half of the frame
CalibQuad == << <<0, 240>>, <<640, 240>>, <<640, 480>>, <<0, 480>> >>
\* the calibration key "c" is pressed during the first CalibrateBy frames, if at all
CalibrateBy == 1
KeyInputs == {"none", "q", "r"} \cup (IF steps <= CalibrateBy THEN {"c"} ELSE {})

Controller == [E |-> Engine, af |-> active_fingers, fx |-> filters_x, fy |-> filters_y,
               raised |-> FALSE]

\* One pass through the loop body up to cv2.waitKey, at time now + dt with the
\* detected hands; an exception leaves the loop through finally: all_notes_off
run_frame(hands, dt) ==
    /\ pc = "frame"
    /\ LET t == now + dt
           S1 == process_hands(Controller, hands, t, homography_matrix, 0)
           S2 == IF S1.raised THEN [S1 EXCEPT !.E = all_notes_off(@)]
                 ELSE release_stale(S1, Len(hands))
       IN  /\ SetEngine(S2.E)
           /\ active_fingers' = S2.af
           /\ filters_x' = S2.fx
           /\ filters_y' = S2.fy
           /\ pc' = IF S1.raised THEN "crashed" ELSE "waitkey"
           /\ now' = t
    /\ num_hands' = Len(hands)
    /\ steps' = steps + 1
    /\ UNCHANGED <<trace, euroVars, spatialVars, calibrating, calibration_points>>

\* try: while cap.isOpened(): ... up to cv2.waitKey; finally: all_notes_off
Frame(hands, dt) ==
    /\ steps < MaxTicks
    /\ run_frame(hands, dt)
    /\ UNCHANGED extVars

\* ret, frame = cap.read(); if not ret: break  (or cap.isOpened() is false);
\* finally: all_notes_off
read_fails ==
    /\ pc = "frame"
    /\ SetEngine(all_notes_off(Engine))
    /\ pc' = "stopped"
    /\ UNCHANGED <<apiVars, euroVars, spatialVars, active_fingers, filters_x, filters_y,
                   calibrating, calibration_points, now, num_hands>>

CameraReadFails == read_fails /\ UNCHANGED extVars

\* _on_mouse, EVENT_LBUTTONDOWN at pixel p, dispatched inside cv2.waitKey
OnMouse(p) ==
    /\ pc = "waitkey"
    /\ IF calibrating
       THEN LET pts == Append(calibration_points, p)
            IN  /\ calibration_points' = pts
                /\ IF Len(pts) = 4
                   THEN /\ \E r \in calibrate(homography_matrix, pts, frame_w, frame_h) :
                             homography_matrix' = r.matrix
                        /\ calibrating' = FALSE
                   ELSE UNCHANGED <<homography_matrix, calibrating>>
       ELSE UNCHANGED <<homography_matrix, calibrating, calibration_points>>
    /\ UNCHANGED <<extVars, engVars, apiVars, euroVars, cal_ret, proj, active_fingers, filters_x,
                   filters_y, now, num_hands, pc>>

\* a quit key that leaves the loop without the panic of the finally block
wait_key_no_panic(key) ==
    /\ pc = "waitkey"
    /\ SetEngine(Engine)
    /\ pc' = IF key = "q" THEN "stopped" ELSE "frame"
    /\ calibrating' = IF key = "c" THEN TRUE ELSE calibrating
    /\ calibration_points' = IF key = "c" THEN <<>> ELSE calibration_points
    /\ homography_matrix' = IF key = "r" THEN spatial_reset ELSE homography_matrix
    /\ UNCHANGED <<apiVars, euroVars, cal_ret, proj, active_fingers, filters_x, filters_y,
                   now, num_hands>>

\* key = cv2.waitKey(1) & 0xFF and the if / elif chain on it; "q" breaks out of
\* the loop and through finally: all_notes_off
wait_key(key) ==
    /\ pc = "waitkey"
    /\ SetEngine(IF key = "q" THEN all_notes_off(Engine) ELSE Engine)
    /\ pc' = IF key = "q" THEN "stopped" ELSE "frame"
    /\ calibrating' = IF key = "c" THEN TRUE ELSE calibrating
    /\ calibration_points' = IF key = "c" THEN <<>> ELSE calibration_points
    /\ homography_matrix' = IF key = "r" THEN spatial_reset ELSE homography_matrix
    /\ UNCHANGED <<apiVars, euroVars, cal_ret, proj, active_fingers, filters_x, filters_y,
                   now, num_hands>>

Key(key) == wait_key(key) /\ UNCHANGED extVars

Next ==
    \/ \E hands \in HandInputs, dt \in FrameSteps : Frame(hands, dt)
    \/ CameraReadFails
    \/ (calibrating /\ OnMouse(CalibQuad[Len(calibration_points) + 1]))
    \/ \E key \in KeyInputs : Key(key)

Spec == Init /\ [][Next]_vars

(***************************************************************************)
(* Claims about the engine.                                                *)
(***************************************************************************)
HeldChannels == {active_notes[f][1] : f \in DOMAIN active_notes}

\* C1: after any sequence of note_on / note_off calls the channels held by
\* associations and the free list are disjoint, free of duplicates (no channel
\* held by two fingers) and together exactly the channels 1..15.
C1_PoolPartition ==
    /\ HeldChannels \cap Range(available_channels) = {}
    /\ NoDup(available_channels)
    /\ \A f, g \in DOMAIN active_notes : f # g => active_notes[f][1] # active_notes[g][1]
    /\ HeldChannels \cup Range(available_channels) = 1..15

\* Number of associations after the first j calls of the ceiling scenario.
HeldAfter(j) ==
    Cardinality({i \in 1..j : trace[i] = "on"}) - Cardinality({i \in 1..j : trace[i] = "off"})

\* C2: a note_on for a new finger is dropped (no association, no message, state
\* unchanged) exactly when 15 fingers hold associations, and allocates otherwise;
\* so the 16th of 16 note_on calls is dropped, and after one note_off exactly one
\* more note_on succeeds before the next is dropped.
C2_PolyphonyCeiling ==
    /\ Cardinality(DOMAIN active_notes) <= 15
    /\ Cardinality(DOMAIN active_notes) = HeldAfter(Len(trace))
    /\ \A i \in DOMAIN trace :
          trace[i] # "off" =>
             IF HeldAfter(i - 1) = 15 THEN trace[i] = "drop" ELSE trace[i] = "on"

Fifteen(x) == [i \in 1..15 |-> x]

C2_Witness == trace = Fifteen("on") \o <<"drop", "off", "on", "drop">>

\* C7: all_notes_off emits CC 123 on each of the channels 0..15, leaves no
\* association and leaves the free list equal to the channels 1..15, no duplicates.
C7_AllNotesOff ==
    (Len(calls) = 1 /\ calls[1].op = "all_notes_off") =>
        /\ Len(sent) = 16
        /\ Range(sent) = {<<CONTROL_CHANGE + c, CC_ALL_NOTES_OFF, 0>> : c \in 0..15}
        /\ DOMAIN active_notes = {}
        /\ Range(available_channels) = 1..15
        /\ NoDup(available_channels)

C7_Witness ==
    /\ Len(calls) = 1
    /\ calls[1].op = "all_notes_off"
    /\ calls[1].held_before >= 2
    /\ calls[1].free_before + calls[1].held_before < 15

(***************************************************************************)
(* Claims about the filter.                                                *)
(***************************************************************************)
\* C10: OneEuroFilter.__call__ returns a value for every sequence of
\* observations, also when a timestamp equals the previous one (dt = 0).
C10_FilterNeverErrors == euro_ret.called => (~euro_ret.raised /\ euro_ret.ret # None)

(***************************************************************************)
(* Claims about the perspective mapper.                                    *)
(***************************************************************************)
\* C8: a calibrate call with a point count other than four, or with four
\* degenerate points, raises an error and leaves the calibration that was in
\* effect before the call in effect.
C8_InvalidCalibrationRejected ==
    (cal_ret.called /\ (cal_ret.count # 4 \/ cal_ret.degenerate)) =>
        (cal_ret.raised /\ homography_matrix = cal_ret.before)

(***************************************************************************)
(* Claims about the controller.  A tick is a Frame step that reaches       *)
(* waitKey; the values a tick computed for a fingertip are read back from  *)
(* the state it leaves: the filters keep their last output in x_prev.      *)
(***************************************************************************)
TickDone == pc = "frame" /\ pc' = "waitkey"
\* the fingertip's hand slot is among this tick's detections
Seen(k) == k[1] < num_hands'
Pressed(k) == k \in DictKeys(active_fingers)
PressedAfter(k) == k \in DictKeys(active_fingers')
\* filtered coordinates of this tick, and the note index computed from them
Fx(k) == filters_x'[k].x_prev[1]
Fy(k) == filters_y'[k].x_prev[1]
NoteOf(k) == _note_from_x(project_point(homography_matrix, Fx(k), Fy(k))[1])
StoredNote(k) == DictGet(active_fingers, k)
\* the engine calls of this tick for fingertip k, as <<op, note>>
CallsFor(k) ==
    LET Mine(c) == c.finger = k
        cs == SelectSeq(calls', Mine)
    IN  [i \in DOMAIN cs |-> <<cs[i].op, cs[i].note>>]
NoteOffFor(k) == {i \in DOMAIN CallsFor(k) : CallsFor(k)[i][1] = "note_off"}
Sliding(k) == Pressed(k) /\ Seen(k) /\ Fy(k) >= KEY_ZONE_TOP /\ NoteOf(k) # StoredNote(k)

\* C3 (as claimed): in a tick, a Released fingertip with filtered y >= 0.76
\* causes exactly one note_on; a Pressed fingertip with y >= 0.73 causes no
\* note_off; a Pressed fingertip with y < 0.73 causes exactly one note_off and
\* is Released afterwards.
C3_HysteresisAsClaimed ==
    [][TickDone =>
        \A k \in FingerKeys : Seen(k) =>
            /\ (~Pressed(k) /\ Fy(k) >= KEY_ZONE_TOP) =>
                   CallsFor(k) = << <<"note_on", Some(NoteOf(k))>> >>
            /\ (Pressed(k) /\ Fy(k) >= KEY_ZONE_RELEASE) => NoteOffFor(k) = {}
            /\ (Pressed(k) /\ Fy(k) < KEY_ZONE_RELEASE) =>
                   /\ CallsFor(k) = << <<"note_off", Some(StoredNote(k))>> >>
                   /\ ~PressedAfter(k)]_vars

\* C3 (amended): as above, but a Pressed fingertip with y >= 0.73 stays Pressed
\* and its only possible note_off is the one of a slide retrigger (y >= 0.76,
\* note index changed), directly followed by the note_on of the new note; a
\* Released fingertip with y < 0.76 stays Released and causes no call.
C3_Hysteresis ==
    [][TickDone =>
        \A k \in FingerKeys : Seen(k) =>
            /\ (~Pressed(k) /\ Fy(k) >= KEY_ZONE_TOP) =>
                   /\ CallsFor(k) = << <<"note_on", Some(NoteOf(k))>> >>
                   /\ PressedAfter(k)
            /\ (~Pressed(k) /\ Fy(k) < KEY_ZONE_TOP) =>
                   /\ CallsFor(k) = <<>>
                   /\ ~PressedAfter(k)
            /\ (Pressed(k) /\ Fy(k) >= KEY_ZONE_RELEASE) =>
                   /\ PressedAfter(k)
                   /\ \/ CallsFor(k) = <<>>
                      \/ /\ Sliding(k)
                         /\ CallsFor(k) = << <<"note_off", Some(StoredNote(k))>>,
                                             <<"note_on", Some(NoteOf(k))>> >>
            /\ (Pressed(k) /\ Fy(k) < KEY_ZONE_RELEASE) =>
                   /\ CallsFor(k) = << <<"note_off", Some(StoredNote(k))>> >>
                   /\ ~PressedAfter(k)]_vars

\* the calls of the tick just completed that name fingertip k
LastCallsFor(k) == {i \in DOMAIN calls : calls[i].finger = k}

\* a fingertip held in the hysteresis band: Pressed, its filtered y of the tick
\* just completed in [0.73, 0.76), and no engine call for it in that tick
C3_Witness ==
    /\ pc = "waitkey"
    /\ num_hands >= 1
    /\ <<0, 8>> \in DictKeys(active_fingers)
    /\ filters_y[<<0, 8>>].x_prev[1] >= KEY_ZONE_RELEASE
    /\ filters_y[<<0, 8>>].x_prev[1] < KEY_ZONE_TOP
    /\ LastCallsFor(<<0, 8>>) = {}

\* C4: at the end of a tick no fingertip of a hand slot absent from the tick's
\* detections is in active_fingers or holds an engine association, and each
\* one that was Pressed had exactly note_off(its note) called in the tick.
C4_ForcedRelease ==
    [][TickDone =>
        \A k \in FingerKeys : ~Seen(k) =>
            /\ ~PressedAfter(k)
            /\ k \notin DOMAIN active_notes'
            /\ Pressed(k) => CallsFor(k) = << <<"note_off", Some(StoredNote(k))>> >>]_vars

\* a tick that saw one hand has released a fingertip of slot 1 by note_off, and
\* that fingertip's last filtered y is still inside the key zone
C4_Witness ==
    /\ pc = "waitkey"
    /\ num_hands = 1
    /\ \E i \in DOMAIN calls : calls[i].op = "note_off" /\ calls[i].finger = <<1, 8>>
    /\ filters_y[<<1, 8>>].x_prev # None
    /\ filters_y[<<1, 8>>].x_prev[1] >= KEY_ZONE_TOP
    /\ <<1, 8>> \notin DictKeys(active_fingers)
    /\ <<1, 8>> \notin DOMAIN active_notes

\* C5 (as claimed): after a slide the fingertip's association carries the
\* channel it carried before.
C5_SlideKeepsChannel ==
    [][TickDone =>
        \A k \in FingerKeys : (Sliding(k) /\ k \in DOMAIN active_notes) =>
            /\ k \in DOMAIN active_notes'
            /\ active_notes'[k][1] = active_notes[k][1]]_vars

\* C5 (amended): a slide releases the association and allocates a new one:
\* NOTE_OFF for the old note goes out on the old channel, NOTE_ON for the new
\* note on another channel, which the fingertip's one association then holds.
C5_SlideReallocates ==
    [][TickDone =>
        \A k \in FingerKeys : (Sliding(k) /\ k \in DOMAIN active_notes) =>
            /\ k \in DOMAIN active_notes'
            /\ active_notes'[k][2] = NoteOf(k)
            /\ active_notes'[k][1] # active_notes[k][1]
            /\ active_notes'[k][1] \notin Range(available_channels')
            /\ \E i, j \in DOMAIN sent' :
                  /\ i < j
                  /\ sent'[i] = <<NOTE_OFF + active_notes[k][1], StoredNote(k) % 128, 0>>
                  /\ sent'[j] = <<NOTE_ON + active_notes'[k][1], NoteOf(k) % 128,
                                  press_velocity>>]_vars

\* the tick just completed retriggered fingertip <<0, 8>>: note_off then note_on
SlidLast(k) ==
    \E i \in DOMAIN calls :
        /\ i < Len(calls)
        /\ calls[i].op = "note_off" /\ calls[i].finger = k
        /\ calls[i + 1].op = "note_on" /\ calls[i + 1].finger = k

C5_Witness ==
    /\ pc = "waitkey"
    /\ SlidLast(<<0, 8>>)
    /\ <<0, 8>> \in DOMAIN active_notes
    /\ active_notes[<<0, 8>>][1] > 1

\* C6: a Pressed fingertip still in the key zone (filtered y >= 0.76) whose
\* computed note differs from the stored one causes exactly note_off(old) then
\* note_on(new) and stores the new note; when the notes are equal the tick
\* makes no engine call for it and the stored note stays.
C6_SlideRetrigger ==
    [][TickDone =>
        \A k \in FingerKeys : (Pressed(k) /\ Seen(k) /\ Fy(k) >= KEY_ZONE_TOP) =>
            IF NoteOf(k) # StoredNote(k)
            THEN /\ CallsFor(k) = << <<"note_off", Some(StoredNote(k))>>,
                                     <<"note_on", Some(NoteOf(k))>> >>
                 /\ PressedAfter(k)
                 /\ DictGet(active_fingers', k) = NoteOf(k)
            ELSE /\ CallsFor(k) = <<>>
                 /\ PressedAfter(k)
                 /\ DictGet(active_fingers', k) = StoredNote(k)]_vars

\* a retrigger of <<0, 8>> in a tick in which <<0, 12>> stayed on its key
C6_Witness ==
    /\ pc = "waitkey"
    /\ SlidLast(<<0, 8>>)
    /\ <<0, 12>> \in DictKeys(active_fingers)
    /\ LastCallsFor(<<0, 12>>) = {}
    /\ Len(sent) = 4

\* C9: once a tick has ended without a hand slot among its detections, the x
\* and y filters of that slot's fingertips hold no prior sample.
C9_FiltersResetOnLoss ==
    pc = "waitkey" =>
        \A k \in FingerKeys : k[1] >= num_hands =>
            /\ filters_x[k] = NewFilter
            /\ filters_y[k] = NewFilter

\* C11: a tick is never terminated by an error: every Frame step ends at
\* waitKey (the loop goes on), and every fingertip of every detected hand has
\* been processed in it (both of its filters have taken the tick's sample).
C11_FaultIsolation ==
    [][(pc = "frame" /\ steps' = steps + 1) =>
          /\ pc' = "waitkey"
          /\ \A k \in FingerKeys : Seen(k) =>
                /\ filters_x'[k].t_prev = Some(now')
                /\ filters_y'[k].t_prev = Some(now')]_vars

\* projected vertical coordinate of this tick
Py(k) == project_point(homography_matrix, Fx(k), Fy(k))[2]

\* C12 (as claimed): a Released fingertip becomes Pressed in a tick exactly
\* when its filtered and projected y is >= 0.76, and a Pressed one is released
\* exactly when its projected y is < 0.73.
C12_ProjectedDecidesAsClaimed ==
    [][TickDone =>
        \A k \in FingerKeys : Seen(k) =>
            /\ ~Pressed(k) => (PressedAfter(k) <=> Py(k) >= KEY_ZONE_TOP)
            /\ Pressed(k) => (PressedAfter(k) <=> Py(k) >= KEY_ZONE_RELEASE)]_vars

\* C12 (amended): the filtered y in frame coordinates decides: a Released
\* fingertip becomes Pressed, with one note_on, exactly when it is >= 0.76, a
\* Pressed one is released exactly when it is < 0.73; the projection enters only
\* through the note, which is computed from the projected x.
C12_FilteredDecides ==
    [][TickDone =>
        \A k \in FingerKeys : Seen(k) =>
            /\ ~Pressed(k) =>
                  /\ PressedAfter(k) <=> Fy(k) >= KEY_ZONE_TOP
                  /\ PressedAfter(k) =>
                        /\ CallsFor(k) = << <<"note_on", Some(NoteOf(k))>> >>
                        /\ DictGet(active_fingers', k) = NoteOf(k)
            /\ Pressed(k) => (PressedAfter(k) <=> Fy(k) >= KEY_ZONE_RELEASE)]_vars

\* under a calibration, a fingertip was pressed in the tick just completed
\* although its projected y is below the entry threshold
C12_Witness ==
    /\ pc = "waitkey"
    /\ homography_matrix # None
    /\ num_hands >= 1
    /\ \E i \in DOMAIN calls : calls[i].op = "note_on" /\ calls[i].finger = <<0, 12>>
    /\ <<0, 12>> \in DictKeys(active_fingers)
    /\ filters_y[<<0, 12>>].x_prev[1] >= KEY_ZONE_TOP
    /\ project_point(homography_matrix, filters_x[<<0, 12>>].x_prev[1],
                     filters_y[<<0, 12>>].x_prev[1])[2] < KEY_ZONE_TOP

\* C13: in every mapper state (uncalibrated, calibrated, after reset) both
\* coordinates returned by project_point lie in [0, 1].
C13_ProjectionClamped ==
    proj # <<>> =>
        /\ proj[2][1] >= 0 /\ proj[2][1] <= Unit
        /\ proj[2][2] >= 0 /\ proj[2][2] <= Unit

(***************************************************************************)
(* _note_from_x on its own: for a configuration and two horizontal         *)
(* positions, in units of 1/10000.                                         *)
(***************************************************************************)
\* <<note_start, note_end>> with note_end > note_start
NoteConfigs == {<<60, 84>>, <<0, 1>>, <<48, 72>>, <<0, 127>>, <<21, 109>>}
NotePositions == {0 - 500, 0 - 1, 0, 1, 416, 417, 4999, 5000, 9583, 9584, 9990, 9998,
                  9999, 10000, 10001, 15000}

NoteFromX(cfg, a, b) ==
    /\ note_ret' = [note_start |-> cfg[1], note_end |-> cfg[2], a |-> a, b |-> b,
                    note_a |-> note_from_x(cfg[1], cfg[2] - cfg[1], a),
                    note_b |-> note_from_x(cfg[1], cfg[2] - cfg[1], b)]
    /\ UNCHANGED <<engVars, apiVars, euroVars, spatialVars, ctlVars, thr, wire>>

NextNote == \E cfg \in NoteConfigs, a, b \in NotePositions : NoteFromX(cfg, a, b)

SpecNote == Init /\ [][NextNote]_vars

\* C14: for every configuration and every px, also px < 0 and px >= 1,
\* _note_from_x lies in [note_start, note_end - 1] and is non-decreasing in px;
\* for note_start = 60, note_end = 84 it maps px = 0.999 to 83.
C14_NoteIndexMapping ==
    note_ret # <<>> =>
        /\ note_ret.note_a >= note_ret.note_start
        /\ note_ret.note_a <= note_ret.note_end - 1
        /\ note_ret.a <= note_ret.b => note_ret.note_a <= note_ret.note_b
        /\ (note_ret.note_start = 60 /\ note_ret.note_end = 84 /\ note_ret.a = 9990) =>
               note_ret.note_a = 83

\* px = 0.999 and px = 1.5 in the configuration 60..84: both give 83
C14_Witness ==
    /\ note_ret # <<>>
    /\ note_ret.note_start = 60 /\ note_ret.note_end = 84
    /\ note_ret.a = 9990 /\ note_ret.b = 15000
    /\ note_ret.note_a = 83 /\ note_ret.note_b = 83

(***************************************************************************)
(* One MPEEngine called from threads.  A thread that is not inside a call  *)
(* starts one (Call); a thread inside a call executes its next statement   *)
(* (Step); the steps of different threads interleave freely, as nothing in *)
(* the engine takes a lock.  The engine starts fresh or with 14 fingers    *)
(* holding the channels 1..14.  SpecSeq is the same engine with a single   *)
(* calling thread.                                                         *)
(***************************************************************************)
MaxThreadCalls == 2
ThreadFingers == {FingerId(20), FingerId(21)}
HeldAtStart == {0, 14}

EngineWith(n) ==
    /\ active_notes = [f \in {FingerId(i) : i \in 1..n} |-> <<f[1], note_start>>]
    /\ available_channels = [i \in 1..(15 - n) |-> n + i]
    /\ sent = <<>>
    /\ calls = <<>>
    /\ lost = <<>>

InitThreads ==
    /\ \E n \in HeldAtStart : EngineWith(n)
    /\ OthersInit
    /\ thr = [t \in Threads |-> IdleThread]

InitSeq ==
    /\ \E n \in HeldAtStart : EngineWith(n)
    /\ OthersInit
    /\ thr = [t \in Threads |-> IF t = 1 THEN IdleThread ELSE AbsentThread]

Call(t, op, f, n) ==
    /\ thr[t].pc \in Resting
    /\ thr[t].ncalls < MaxThreadCalls
    /\ thr' = [thr EXCEPT ![t] = [pc |-> FirstPc(op), op |-> op, finger |-> f, note |-> n,
                                  velocity |-> press_velocity, chan |-> 0,
                                  stored_note |-> None, out |-> <<>>,
                                  ncalls |-> thr[t].ncalls + 1]]
    /\ UNCHANGED <<engVars, apiVars, euroVars, spatialVars, ctlVars, note_ret, wire>>

Step(t) ==
    /\ thr[t].pc \notin Resting \cup {"absent"}
    /\ LET M == stmt([an |-> active_notes, ac |-> available_channels, th |-> thr[t]])
       IN  /\ active_notes' = M.an
           /\ available_channels' = M.ac
           /\ thr' = [thr EXCEPT ![t] = M.th]
    /\ UNCHANGED <<sent, calls, lost, apiVars, euroVars, spatialVars, ctlVars, note_ret,
                   wire>>

NextThreads ==
    \/ \E t \in Threads, f \in ThreadFingers : Call(t, "note_on", f, Some(note_start))
    \/ \E t \in Threads, f \in ThreadFingers, n \in {None, Some(note_start + 1)} :
          Call(t, "note_off", f, n)
    \/ \E t \in Threads : Call(t, "all_notes_off", None, None)
    \/ \E t \in Threads : Step(t)

SpecThreads == InitThreads /\ [][NextThreads]_vars

SpecSeq == InitSeq /\ [][NextThreads]_vars

\* C15: with calls from different threads interleaving at statement
\* granularity, no call fails with an error, no channel is in
\* available_channels and held by an association at once or twice in
\* available_channels, and no two fingers hold the same channel.
C15_ThreadSafe ==
    /\ \A t \in Threads : thr[t].pc # "error"
    /\ HeldChannels \cap Range(available_channels) = {}
    /\ NoDup(available_channels)
    /\ \A f, g \in DOMAIN active_notes : f # g => active_notes[f][1] # active_notes[g][1]

(***************************************************************************)
(* The engine over a transport that fails: each call comes with the set of *)
(* its sends (by position) for which midi_out.send_message raises.         *)
(***************************************************************************)
MaxTxCalls == 4
FailPatterns == {{}, {1}, {2}, {1, 2}, 1..16}
TxNotes == {60, 130}
TxVelocities == {press_velocity, 200}
WithFails(E, F) == [E EXCEPT !.fails = F]

TxNoteOn(f, n, v, F) ==
    /\ steps < MaxTxCalls
    /\ SetEngine(note_on(WithFails(Engine, F), f, n, v))
    /\ steps' = steps + 1
    /\ UNCHANGED <<extVars, trace, euroVars, spatialVars, ctlVars>>

TxNoteOff(f, n, F) ==
    /\ steps < MaxTxCalls
    /\ SetEngine(note_off(WithFails(Engine, F), f, n))
    /\ steps' = steps + 1
    /\ UNCHANGED <<extVars, trace, euroVars, spatialVars, ctlVars>>

TxAllNotesOff(F) ==
    /\ steps < MaxTxCalls
    /\ SetEngine(all_notes_off(WithFails(Engine, F)))
    /\ steps' = steps + 1
    /\ UNCHANGED <<extVars, trace, euroVars, spatialVars, ctlVars>>

NextTransport ==
    \/ \E f \in ApiFingers, n \in TxNotes, v \in TxVelocities, F \in FailPatterns :
          TxNoteOn(f, n, v, F)
    \/ \E f \in ApiFingers, n \in {None} \cup {Some(m) : m \in TxNotes}, F \in FailPatterns :
          TxNoteOff(f, n, F)
    \/ \E F \in FailPatterns : TxAllNotesOff(F)

SpecTransport == Init /\ [][NextTransport]_vars

\* the call just made, run from the state before it over a transport that works
Replayed ==
    LET c == calls'[1]
    IN  CASE c.op = "note_on" -> note_on(Engine, c.finger, c.note[1], c.args[1])
          [] c.op = "note_off" -> note_off(Engine, c.finger, c.note)
          [] c.op = "all_notes_off" -> all_notes_off(Engine)

\* C16: whichever of its sends raise, a note_on, note_off or all_notes_off call
\* leaves active_notes and available_channels as the same call over a working
\* transport does, and attempts every send of that call (none is skipped).
C16_BookkeepingIgnoresTransport ==
    [][steps' = steps + 1 =>
          /\ active_notes' = Replayed.active_notes
          /\ available_channels' = Replayed.available_channels
          /\ Len(sent') + Len(lost') = Len(Replayed.sent)]_vars

\* a note_off of a sounding finger whose NOTE_OFF send raised: the association
\* is gone and the channel is back at the end of the pool
C16_Witness ==
    /\ Len(calls) = 1
    /\ calls[1].op = "note_off"
    /\ Len(lost) >= 1
    /\ lost[1][1] \in {NOTE_OFF + c : c \in 1..15}
    /\ Len(sent) + Len(lost) = 2
    /\ calls[1].finger \notin DOMAIN active_notes
    /\ Len(available_channels) = calls[1].free_before + 1

(***************************************************************************)
(* What the engine puts on the wire.  A status byte is the message type in *)
(* its high four bits and the channel index in its low four bits.          *)
(***************************************************************************)
StatusOf(m) == (m[1] \div 16) * 16
ChannelOf(m) == m[1] % 16

\* every message handed to the transport, delivered or not
Emitted == sent \o lost

\* C17: channel index 0 is never in available_channels and never held by an
\* association; every note-on, note-off and pitch-bend message emitted is on a
\* channel in 1..15; the only message emitted on channel 0 is the control
\* change 123 of all_notes_off.
C17_MasterChannelReserved ==
    /\ 0 \notin Range(available_channels)
    /\ 0 \notin HeldChannels
    /\ \A i \in DOMAIN Emitted :
          LET m == Emitted[i]
          IN  /\ StatusOf(m) \in {NOTE_ON, NOTE_OFF, PITCH_BEND} => ChannelOf(m) \in 1..15
              /\ ChannelOf(m) = 0 => m = <<CONTROL_CHANGE, CC_ALL_NOTES_OFF, 0>>

\* all_notes_off has just run with three channels out of the pool: its first message
\* went out on channel 0, and the pool it restored starts at channel 1
C17_Witness ==
    /\ Len(calls) = 1
    /\ calls[1].op = "all_notes_off"
    /\ calls[1].free_before = 15 - Cardinality(ApiFingers)
    /\ ChannelOf(sent[1]) = 0
    /\ available_channels = AllNoteChannels

(***************************************************************************)
(* note_off statement by statement, one calling thread (SpecSeq).          *)
(***************************************************************************)
\* the two messages of a note_off that found an association
NoteOffMessages(th) ==
    <<<<NOTE_OFF + th.chan, actual_note(th) % 128, 0>>, <<PITCH_BEND + th.chan, 0, 64>>>>

\* C18: a note_off that finds an association takes the finger's channel and
\* stored note out of active_notes first; it then emits a note-off for the
\* stored note (the override note when one is given) and a pitch-bend centre on
\* that channel, in this order, and appends the channel to available_channels
\* last.  From the removal to the append the channel is neither held nor in
\* the pool, and at no statement boundary is a channel both in the pool and
\* held.
C18_NoteOffOrder ==
    /\ [](LET th == thr[1]
              popped == th.op = "note_off" /\ th.stored_note # None
          IN  /\ HeldChannels \cap Range(available_channels) = {}
              /\ th.pc \in {"off_send", "off_bend", "off_append"} =>
                    /\ popped
                    /\ th.finger \notin DOMAIN active_notes
                    /\ th.chan \notin HeldChannels \cup Range(available_channels)
                    /\ th.out = CASE th.pc = "off_send" -> <<>>
                                  [] th.pc = "off_bend" -> SubSeq(NoteOffMessages(th), 1, 1)
                                  [] th.pc = "off_append" -> NoteOffMessages(th)
              /\ (popped /\ th.pc = "done") =>
                    /\ th.out = NoteOffMessages(th)
                    /\ th.finger \notin DOMAIN active_notes
                    /\ available_channels # <<>>
                    /\ available_channels[Len(available_channels)] = th.chan)
    /\ [][(thr[1].pc = "off_pop" /\ thr'[1].pc = "off_send") =>
             /\ thr'[1].chan = active_notes[thr[1].finger][1]
             /\ thr'[1].stored_note = Some(active_notes[thr[1].finger][2])
             /\ thr'[1].note = thr[1].note
             /\ available_channels' = available_channels]_vars

\* a note_off with an override note, both messages handed over and the channel
\* not yet back in the pool
C18_Witness ==
    /\ thr[1].op = "note_off"
    /\ thr[1].pc = "off_append"
    /\ thr[1].note = Some(note_start + 1)
    /\ thr[1].stored_note = Some(note_start)
    /\ thr[1].out[1][2] = note_start + 1
    /\ thr[1].chan \notin Range(available_channels)

\* C19: a note_on that finds a free channel emits exactly two messages, both on
\* the channel it takes from the head of the pool and gives to the finger:
\* first the pitch-bend centre (LSB 0, MSB 64), then a note-on whose velocity
\* is the requested one clamped to 1..127 and whose note byte is in 0..127
\* (the requested note when that is in 0..127).
C19_NoteOnMessages ==
    [][(steps' = steps + 1 /\ calls'[1].op = "note_on" /\ available_channels # <<>>) =>
          LET chan == Head(available_channels)
              note_num == calls'[1].note[1]
              velocity == calls'[1].args[1]
          IN  /\ active_notes'[calls'[1].finger][1] = chan
              /\ Len(sent') = 2
              /\ sent'[1] = <<PITCH_BEND + chan, 0, 64>>
              /\ Len(sent'[2]) = 3
              /\ sent'[2][1] = NOTE_ON + chan
              /\ sent'[2][2] \in 0..127
              /\ note_num \in 0..127 => sent'[2][2] = note_num
              /\ sent'[2][3] = IF velocity < 1 THEN 1
                               ELSE IF velocity > 127 THEN 127 ELSE velocity]_vars

\* a note_on with velocity 200 and note 130 went out with velocity 127
C19_Witness ==
    /\ Len(calls) = 1
    /\ calls[1].op = "note_on"
    /\ calls[1].free_before > 0
    /\ calls[1].args = Some(200)
    /\ calls[1].note = Some(130)
    /\ Len(sent) = 2
    /\ sent[2][3] = 127

\* C20: note_off and update_expression for a finger without an association
\* emit nothing and leave active_notes and available_channels as they were;
\* update_expression for a finger with an association leaves both as they
\* were too and emits exactly a pitch-bend and a CC 74 message, both on the
\* finger's channel.
C20_NoOpFrame ==
    [][(steps' = steps + 1 /\ calls'[1].op \in {"note_off", "update_expression"}) =>
          LET finger_id == calls'[1].finger
          IN  /\ finger_id \notin DOMAIN active_notes =>
                    /\ Emitted' = <<>>
                    /\ active_notes' = active_notes
                    /\ available_channels' = available_channels
              /\ (finger_id \in DOMAIN active_notes /\ calls'[1].op = "update_expression") =>
                    /\ active_notes' = active_notes
                    /\ available_channels' = available_channels
                    /\ Len(Emitted') = 2
                    /\ StatusOf(Emitted'[1]) = PITCH_BEND
                    /\ StatusOf(Emitted'[2]) = CONTROL_CHANGE
                    /\ Emitted'[2][2] = CC_TIMBRE
                    /\ ChannelOf(Emitted'[1]) = active_notes[finger_id][1]
                    /\ ChannelOf(Emitted'[2]) = active_notes[finger_id][1]]_vars

\* update_expression for a finger that holds nothing, while two other fingers
\* sound: no message, and the two keep their channels
C20_Witness ==
    /\ Len(calls) = 1
    /\ calls[1].op = "update_expression"
    /\ calls[1].finger \notin DOMAIN active_notes
    /\ Emitted = <<>>
    /\ calls[1].held_before = 2
    /\ Cardinality(DOMAIN active_notes) = 2
    /\ Len(available_channels) = calls[1].free_before

\* C21: a call on fresh filter state (a new filter, or the first call after
\* reset) does not raise, returns the raw input x as it came, whatever x and
\* the timestamp are, and leaves the derivative estimate at zero.
C21_FirstObservationRaw ==
    (euro_ret.called /\ euro_ret.fresh) =>
        /\ ~euro_ret.raised
        /\ euro_ret.ret = Some(euro_ret.x)
        /\ euro.x_prev = Some(euro_ret.x)
        /\ euro.t_prev = Some(euro_ret.t)
        /\ euro.dx_prev = 0

\* the last of MaxObs steps is the first call after a reset: 500 came back
\* as 500
C21_Witness ==
    /\ steps = MaxObs
    /\ euro_ret.called
    /\ euro_ret.fresh
    /\ euro_ret.x = 500
    /\ euro_ret.t = 16
    /\ euro_ret.ret = Some(500)

(***************************************************************************)
(* The main loop with all eight fingertips in play, and the message stream *)
(* it produces.  A hand is one of three poses of its four fingertips: all  *)
(* inside the key zone, all inside it two keys further right, all above    *)
(* it.  wire collects what every frame, and the shutdown, hand to the      *)
(* transport.  A frame at an unchanged timestamp (dt = 0) is the error     *)
(* inside a tick.                                                          *)
(***************************************************************************)
MaxWireTicks == 3
TipsAt(x, y) == (8 :> <<x, y>> @@ 12 :> <<x + 200, y>> @@ 16 :> <<x + 400, y>>
                 @@ 20 :> <<x + 600, y>>)
Poses == {TipsAt(100, 800), TipsAt(200, 800), TipsAt(100, 500)}
WireHands == {<<>>} \cup {<<a>> : a \in Poses} \cup {<<a, b>> : a, b \in Poses}
WireSteps == {0, 500}

WireFrame(hands, dt) ==
    /\ steps < MaxWireTicks
    /\ run_frame(hands, dt)
    /\ wire' = wire \o sent'
    /\ UNCHANGED <<note_ret, thr>>

WireReadFails ==
    /\ read_fails
    /\ wire' = wire \o sent'
    /\ UNCHANGED <<note_ret, thr>>

WireKey(key) ==
    /\ wait_key(key)
    /\ wire' = wire \o sent'
    /\ UNCHANGED <<note_ret, thr>>

NextWire ==
    \/ \E hands \in WireHands, dt \in WireSteps : WireFrame(hands, dt)
    \/ WireReadFails
    \/ \E key \in {"none", "q"} : WireKey(key)

SpecWire == Init /\ [][NextWire]_vars

\* the loop of run() has not been left
Running == pc \in {"frame", "waitkey"}

\* C22: while the loop runs, with up to two hands of four fingertips, after
\* every frame the keys of active_fingers are the keys of active_notes, each
\* key has the same note in both, at most 8 channels are out of the pool, and
\* every note_on of the frame found a free channel.
C22_TranslatorAllocatorAgree ==
    Running =>
        /\ DictKeys(active_fingers) = DOMAIN active_notes
        /\ \A k \in DOMAIN active_notes : active_notes[k][2] = DictGet(active_fingers, k)
        /\ Cardinality(DOMAIN active_notes) <= 8
        /\ Len(available_channels) >= 15 - 8
        /\ \A i \in DOMAIN calls : calls[i].op = "note_on" => calls[i].free_before > 0

\* both hands have pressed and then slid all four fingertips: eight notes
\* sound, and the last fingertip got channel 1 back from the pool
C22_Witness ==
    /\ pc = "waitkey"
    /\ Cardinality(DictKeys(active_fingers)) = 8
    /\ Len(calls) = 16
    /\ <<1, 20>> \in DOMAIN active_notes
    /\ active_notes[<<1, 20>>][1] = 1

\* the note-on and note-off messages on channel ch, in the order they went out
NoteStream(ch) ==
    LET OnOrOff(m) == ChannelOf(m) = ch /\ StatusOf(m) \in {NOTE_ON, NOTE_OFF}
    IN  SelectSeq(wire, OnOrOff)

\* note-on, note-off, note-on, ... with every note-off for the note of the
\* note-on before it
Alternates(s) ==
    \A i \in DOMAIN s :
        IF i % 2 = 1
        THEN StatusOf(s[i]) = NOTE_ON
        ELSE StatusOf(s[i]) = NOTE_OFF /\ s[i][2] = s[i - 1][2]

\* C23: in the messages the loop has produced so far, on every channel note-on
\* and note-off alternate, starting with a note-on, and every note-off carries
\* the note number of the note-on before it; so no note-on goes out on a
\* channel whose last note-on has had no note-off.
C23_NoStuckNotes == \A ch \in 0..15 : Alternates(NoteStream(ch))

\* channel 1 has sounded a note, stopped it and sounds another fingertip's note
C23_Witness ==
    /\ Len(NoteStream(1)) = 3
    /\ <<1, 20>> \in DOMAIN active_notes
    /\ active_notes[<<1, 20>>][1] = 1
    /\ NoteStream(1)[3][2] = active_notes[<<1, 20>>][2]
    /\ NoteStream(1)[3][2] # NoteStream(1)[1][2]

\* how many times all_notes_off has run: each run sends one CC 123 on channel 0
PanicCount ==
    LET MasterPanic(m) == m = <<CONTROL_CHANGE, CC_ALL_NOTES_OFF, 0>>
    IN  Len(SelectSeq(wire, MasterPanic))

\* C24: while the loop runs all_notes_off has not been called; once the loop
\* is left, by the quit key, a failed camera read or an exception in a frame,
\* all_notes_off has been called exactly once, as the last engine call, and
\* the engine has no association and the full pool 1..15, whatever was
\* pressed.
C24_ShutdownPanic ==
    /\ Running => PanicCount = 0
    /\ ~Running =>
          /\ PanicCount = 1
          /\ calls # <<>>
          /\ calls[Len(calls)].op = "all_notes_off"
          /\ SubSeq(wire, Len(wire) - 15, Len(wire))
                = [c \in 1..16 |-> <<CONTROL_CHANGE + (c - 1), CC_ALL_NOTES_OFF, 0>>]
          /\ active_notes = EmptyDict
          /\ available_channels = AllNoteChannels

\* an exception in a frame ended the loop while eight fingertips were pressed
C24_Witness ==
    /\ pc = "crashed"
    /\ Cardinality(DictKeys(active_fingers)) = 8
    /\ PanicCount = 1
    /\ active_notes = EmptyDict
    /\ Len(available_channels) = 15

====
